---- MODULE Spec2Model ----
(***************************************************************************)
(* Model of src/main_3.py: the text normaliser, the tokenizer, the matcher, *)
(* the price-column selector, and the two handlers that use them            *)
(* (load_data, perform_search).                                             *)
(*                                                                          *)
(* A Python str is a sequence of characters.  A character is a one-element  *)
(* name: ASCII characters stand for themselves ("x", "2", " ", "^"), a      *)
(* Cyrillic lower-case letter is "c" followed by its transliteration        *)
(* ("cm" is the Cyrillic em, "ckh" the Cyrillic kha), an upper-case one is  *)
(* "C" followed by it ("CL", "CTS"), and "sup2", "times", "ndash", "mdash"  *)
(* are the superscript two, the multiplication sign and the two dashes.     *)
(***************************************************************************)
EXTENDS Integers, Sequences, FiniteSets, TLC

VARIABLES session_state, call, ret

vars == <<session_state, call, ret>>

\* An optional value: Python's None, or a value v held as Some(v)
None == <<>>
Some(v) == <<v>>
Value(o) == o[1]

\* what a call gives: the value it returns, or the exception it raises
Return(v) == [raises |-> "", value |-> v]
Raise(e) == [raises |-> e, value |-> <<>>]

(***************************************************************************)
(* Bounds of the model.                                                     *)
(***************************************************************************)
MaxNormLen == 4
MaxDigits == 1
MaxWs == 2
MaxQueryLen == 3
MaxRows == 3
MaxCols == 3
MaxLoadCols == 2

(***************************************************************************)
(* Character classes of Python's re module on str patterns.                 *)
(***************************************************************************)
Digits == {"0", "1", "2", "3", "4", "5", "6", "7", "8", "9"}

Spaces == {" ", "\n"}

CyrLower == {"ca", "cb", "cv", "ce", "cyo", "cz", "ci", "cl", "cm", "cn", "co",
             "cp", "cr", "cs", "ct", "cu", "ckh", "cts"}

CyrUpper == {"CL", "CM", "CN", "CT", "CKH", "CTS"}

\* \d : Unicode decimal digits; the superscript two is not one of them.
IsDigit(c) == c \in Digits

\* \s
IsSpace(c) == c \in Spaces

\* \w : str.isalnum() or "_"; the superscript two is alphanumeric.
IsWord(c) == c \in Digits \cup CyrLower \cup CyrUpper \cup {"x", "X", "sup2", "_"}

\* str.lower(), character by character
lower_char(c) ==
    CASE c = "CL" -> "cl"
      [] c = "CM" -> "cm"
      [] c = "CN" -> "cn"
      [] c = "CT" -> "ct"
      [] c = "CKH" -> "ckh"
      [] c = "CTS" -> "cts"
      [] c = "X" -> "x"
      [] OTHER -> c

lower(text) == [i \in 1..Len(text) |-> lower_char(text[i])]

\* text[i:] (1-based i)
From(text, i) == SubSeq(text, i, Len(text))

\* text.startswith(k, i-1)
StartsWithAt(text, i, k) ==
    /\ i + Len(k) - 1 <= Len(text)
    /\ SubSeq(text, i, i + Len(k) - 1) = k

(***************************************************************************)
(* str.replace(k, v): every non-overlapping occurrence, left to right.      *)
(***************************************************************************)
RECURSIVE replace(_, _, _)
replace(text, k, v) ==
    IF Len(text) < Len(k) THEN text
    ELSE IF StartsWithAt(text, 1, k)
         THEN v \o replace(From(text, Len(k) + 1), k, v)
         ELSE <<text[1]>> \o replace(Tail(text), k, v)

\* the three unit-squared symbols
mm_sq == <<"cm", "cm", "sup2">>
cm_sq == <<"cs", "cm", "sup2">>
m_sq == <<"cm", "sup2">>

\* the dict with a plain 2 written for the superscript in its last entry
replacements_plain2 ==
    << <<<<"ckh">>, <<"x">>>>,
       <<<<"ndash">>, <<"-">>>>,
       <<<<"mdash">>, <<"-">>>>,
       <<<<"cyo">>, <<"ce">>>>,
       <<<<"cm", "cm", "2">>, mm_sq>>,
       <<<<"cm", "cm", "^", "2">>, mm_sq>>,
       <<<<"cs", "cm", "2">>, cm_sq>>,
       <<<<"cs", "cm", "^", "2">>, cm_sq>>,
       <<<<"cm", "2">>, m_sq>>,
       <<<<"cm", "^", "2">>, <<"cm", "2">>>> >>

\* the dict of normalize_text, in insertion order
replacements ==
    << <<<<"ckh">>, <<"x">>>>,
       <<<<"ndash">>, <<"-">>>>,
       <<<<"mdash">>, <<"-">>>>,
       <<<<"cyo">>, <<"ce">>>>,
       <<<<"cm", "cm", "2">>, mm_sq>>,
       <<<<"cm", "cm", "^", "2">>, mm_sq>>,
       <<<<"cs", "cm", "2">>, cm_sq>>,
       <<<<"cs", "cm", "^", "2">>, cm_sq>>,
       <<<<"cm", "2">>, m_sq>>,
       <<<<"cm", "^", "2">>, m_sq>> >>

\* for k, v in replacements.items(): text = text.replace(k, v)
RECURSIVE apply_replacements(_, _)
apply_replacements(text, n) ==
    IF n > Len(replacements) THEN text
    ELSE apply_replacements(replace(text, replacements[n][1], replacements[n][2]), n + 1)

\* first index >= i of a character that is not whitespace (Len+1 if none): \s* / \s+
RECURSIVE SpacesEnd(_, _)
SpacesEnd(text, i) ==
    IF i <= Len(text) /\ IsSpace(text[i]) THEN SpacesEnd(text, i + 1) ELSE i

\* the lookahead (?=mm_sq|cm_sq|m_sq) at i
UnitAt(text, i) ==
    \/ StartsWithAt(text, i, mm_sq)
    \/ StartsWithAt(text, i, cm_sq)
    \/ StartsWithAt(text, i, m_sq)

\* the whitespace rule left out
strip_unit_space_off(text, i) == From(text, i)

\* re.sub(r'(?<=\d)\s+(?=mm_sq|cm_sq|m_sq)', '', text), scanning from i
RECURSIVE strip_unit_space(_, _)
strip_unit_space(text, i) ==
    IF i > Len(text) THEN <<>>
    ELSE IF /\ i > 1
            /\ IsDigit(text[i - 1])
            /\ IsSpace(text[i])
            /\ UnitAt(text, SpacesEnd(text, i))
         THEN strip_unit_space(text, SpacesEnd(text, i))
         ELSE <<text[i]>> \o strip_unit_space(text, i + 1)

normalize_text(text) ==
    strip_unit_space(apply_replacements(lower(text), 1), 1)

(***************************************************************************)
(* split_preserve_sizes                                                     *)
(***************************************************************************)
\* first index >= i of a character that is not a digit: \d+
RECURSIVE DigitsEnd(_, _)
DigitsEnd(text, i) ==
    IF i <= Len(text) /\ IsDigit(text[i]) THEN DigitsEnd(text, i + 1) ELSE i

\* \d+(?:[.,]\d+)? at i: the index after the match, 0 when there is none
NumberEnd(text, i) ==
    LET e == DigitsEnd(text, i)
    IN  IF e = i THEN 0
        ELSE IF /\ e + 1 <= Len(text)
                /\ text[e] \in {".", ","}
                /\ IsDigit(text[e + 1])
             THEN DigitsEnd(text, e + 1)
             ELSE e

\* the separator class without the asterisk
Separators_no_star == {"x", "ckh", "times"}

\* the separators [x kha times *] of the dimension pattern
Separators == {"x", "ckh", "times", "*"}

\* (\d+(?:[.,]\d+)?)\s*[seps]\s*(\d+(?:[.,]\d+)?) at i, whitespace allowed or not:
\* <<end of group 1, start of group 2, end of the match>>, <<0, 0, 0>> when none
DimMatch(text, i, seps, spaces) ==
    LET a == NumberEnd(text, i)
        p == IF spaces THEN SpacesEnd(text, a) ELSE a
        q == IF spaces THEN SpacesEnd(text, p + 1) ELSE p + 1
        b == NumberEnd(text, q)
    IN  IF a # 0 /\ p <= Len(text) /\ text[p] \in seps /\ b # 0
        THEN <<a, q, b>>
        ELSE <<0, 0, 0>>

\* re.sub(dimension pattern, r'\1x\2', text), scanning from i
RECURSIVE collapse_sizes(_, _)
collapse_sizes(text, i) ==
    IF i > Len(text) THEN <<>>
    ELSE LET d == DimMatch(text, i, Separators, TRUE)
         IN  IF d[3] # 0
             THEN SubSeq(text, i, d[1] - 1) \o <<"x">> \o SubSeq(text, d[2], d[3] - 1)
                  \o collapse_sizes(text, d[3])
             ELSE <<text[i]>> \o collapse_sizes(text, i + 1)

\* \b at i: between text[i-1] and text[i]
WordBoundary(text, i) ==
    LET before == i > 1 /\ IsWord(text[i - 1])
        after == i <= Len(text) /\ IsWord(text[i])
    IN  before # after

\* \b<unit>\s*[\^]?\s*2\b at i: the index after the match, 0 when there is none
UnitMatch(text, i, unit) ==
    LET p == SpacesEnd(text, i + Len(unit))
        c == IF p <= Len(text) /\ text[p] = "^" THEN p + 1 ELSE p
        t == SpacesEnd(text, c)
    IN  IF /\ WordBoundary(text, i)
           /\ StartsWithAt(text, i, unit)
           /\ t <= Len(text)
           /\ text[t] = "2"
           /\ WordBoundary(text, t + 1)
        THEN t + 1
        ELSE 0

\* re.sub(r'\b<unit>\s*[\^]?\s*2\b', '<unit> squared', text), scanning from i
RECURSIVE canon_unit(_, _, _)
canon_unit(text, i, unit) ==
    IF i > Len(text) THEN <<>>
    ELSE LET e == UnitMatch(text, i, unit)
         IN  IF e # 0
             THEN unit \o <<"sup2">> \o canon_unit(text, e, unit)
             ELSE <<text[i]>> \o canon_unit(text, i + 1, unit)

\* first index >= i of a character that is not a word character: \w+
RECURSIVE WordEnd(_, _)
WordEnd(text, i) ==
    IF i <= Len(text) /\ IsWord(text[i]) THEN WordEnd(text, i + 1) ELSE i

\* one step of the findall pattern at i: the index after the first alternative
\* that matches (dimension | mm_sq | cm_sq | m_sq | \w+), 0 when none does
TokenEnd(text, i) ==
    LET d == DimMatch(text, i, {"x"}, FALSE)
    IN  IF d[3] # 0 THEN d[3]
        ELSE IF StartsWithAt(text, i, mm_sq) THEN i + Len(mm_sq)
        ELSE IF StartsWithAt(text, i, cm_sq) THEN i + Len(cm_sq)
        ELSE IF StartsWithAt(text, i, m_sq) THEN i + Len(m_sq)
        ELSE IF WordEnd(text, i) # i THEN WordEnd(text, i)
        ELSE 0

\* re.findall(pattern, text), scanning from i
RECURSIVE findall(_, _)
findall(text, i) ==
    IF i > Len(text) THEN <<>>
    ELSE LET e == TokenEnd(text, i)
         IN  IF e # 0
             THEN <<SubSeq(text, i, e - 1)>> \o findall(text, e)
             ELSE findall(text, i + 1)

split_preserve_sizes(text) ==
    LET t1 == collapse_sizes(normalize_text(text), 1)
        t2 == canon_unit(t1, 1, <<"cm", "cm">>)
        t3 == canon_unit(t2, 1, <<"cs", "cm">>)
        t4 == canon_unit(t3, 1, <<"cm">>)
    IN  findall(t4, 1)

(***************************************************************************)
(* match_query                                                              *)
(***************************************************************************)
Range(seq) == {seq[i] : i \in 1..Len(seq)}

\* sum(1 for word in query_words if word in row_words)
RECURSIVE count_matches(_, _)
count_matches(query_words, row_words) ==
    IF query_words = <<>> THEN 0
    ELSE (IF Head(query_words) \in Range(row_words) THEN 1 ELSE 0)
         + count_matches(Tail(query_words), row_words)

\* match_query counting each distinct query token once
match_query_distinct(row_text, query_words, require_all) ==
    LET row_words == split_preserve_sizes(row_text)
        match_count == Cardinality(Range(query_words) \cap Range(row_words))
    IN  IF ~require_all \/ match_count = Cardinality(Range(query_words))
        THEN match_count ELSE 0

\* match_query with the require_all test dropped
match_query_partial(row_text, query_words, require_all) ==
    count_matches(query_words, split_preserve_sizes(row_text))

match_query(row_text, query_words, require_all) ==
    LET row_words == split_preserve_sizes(row_text)
        match_count == count_matches(query_words, row_words)
    IN  IF ~require_all \/ match_count = Len(query_words) THEN match_count ELSE 0

(***************************************************************************)
(* st.session_state after initialize_session_state                          *)
(***************************************************************************)
session_defaults ==
    [combined_df |-> None,
     sheet_id |-> None,
     data_loaded |-> FALSE,
     price_columns |-> <<>>,
     latest_price_col |-> None,
     search_results |-> None,
     need_load |-> FALSE]

(***************************************************************************)
(* The pure functions, each applied to inputs drawn from bounded sets.      *)
(***************************************************************************)
\* all sequences over S of length lo..hi
SeqsOf(S, lo, hi) == UNION {[1..n -> S] : n \in lo..hi}

\* the characters the replacements and the whitespace rule of normalize_text read
NormChars == {"cm", "cs", "2", "^", "sup2", " ", "ckh", "CM"}

NormInputs == SeqsOf(NormChars, 0, MaxNormLen)

normalize_text_call ==
    /\ call.fn = "pending"
    /\ call.arg = "text"
    /\ ret' = normalize_text(call.text)
    /\ call' = [call EXCEPT !.fn = "normalize_text"]
    /\ UNCHANGED session_state

InitNormalize ==
    /\ session_state = session_defaults
    /\ call \in {[fn |-> "pending", arg |-> "text", text |-> t] : t \in NormInputs}
    /\ ret = None

SpecNormalize == InitNormalize /\ [][normalize_text_call]_vars

\* numbers: digits, optionally "." or "," and one more digit
DimDigits == {"1", "2"}

Numbers ==
    LET ints == SeqsOf(DimDigits, 1, MaxDigits)
    IN  ints \cup {i \o <<p>> \o <<d>> : i \in ints, p \in {".", ","}, d \in DimDigits}

Blank(n) == [i \in 1..n |-> " "]

\* the separators as typed: x, kha and KHA, the multiplication sign, *, X
TypedSeparators == {"x", "ckh", "times", "*", "CKH", "X"}

\* a, whitespace, separator, whitespace, b
DimExpr(a, l, sep, r, b) == a \o Blank(l) \o <<sep>> \o Blank(r) \o b

DimInputs ==
    {[fn |-> "pending", arg |-> "dim", a |-> a, b |-> b, sep |-> sep,
      text |-> DimExpr(a, l, sep, r, b)] :
        a \in Numbers, b \in Numbers, sep \in TypedSeparators,
        l \in 0..MaxWs, r \in 0..MaxWs}

\* a digit run, whitespace, a unit and one spelling of "squared"
UnitLetters == {<<"cm", "cm">>, <<"cs", "cm">>, <<"cm">>}

SquareSpellings == {<<"2">>, <<"^", "2">>, <<"sup2">>}

UnitInputs ==
    {[fn |-> "pending", arg |-> "unit", n |-> n, unit |-> u,
      text |-> n \o Blank(l) \o u \o sq] :
        n \in SeqsOf({"1", "0"}, 1, MaxDigits + 1), l \in 0..MaxWs,
        u \in UnitLetters, sq \in SquareSpellings}

\* the texts of the documented examples
Sheet120x60mm2 ==
    <<"CL", "ci", "cs", "ct", " ", "1", "2", "0", "x", "6", "0", " ", "cm", "cm", "2">>

Sheet120kh60mmCaret2 ==
    <<"CL", "ci", "cs", "ct", " ", "1", "2", "0", " ", "ckh", " ", "6", "0",
      "cm", "cm", "^", "2">>

ExampleInputs ==
    {[fn |-> "pending", arg |-> "example", text |-> t] :
        t \in {Sheet120x60mm2, Sheet120kh60mmCaret2, <<>>}}

split_preserve_sizes_call ==
    /\ call.fn = "pending"
    /\ call.arg \in {"dim", "unit", "example"}
    /\ ret' = split_preserve_sizes(call.text)
    /\ call' = [call EXCEPT !.fn = "split_preserve_sizes"]
    /\ UNCHANGED session_state

InitTokenize ==
    /\ session_state = session_defaults
    /\ call \in DimInputs \cup UnitInputs \cup ExampleInputs
    /\ ret = None

SpecTokenize == InitTokenize /\ [][split_preserve_sizes_call]_vars

\* row texts and query tokens of the matcher
truba == <<"ct", "cr", "cu", "cb", "ca">>
list == <<"cl", "ci", "cs", "ct">>
size120x60 == <<"1", "2", "0", "x", "6", "0">>

RowTexts ==
    { truba,
      <<"CT", "cr", "cu", "cb", "ca", " ", "1", "2", "0", "ckh", "6", "0">>,
      list \o <<" ">> \o size120x60,
      <<>> }

QueryTokens == {truba, size120x60, list}

MatchInputs ==
    {[fn |-> "pending", arg |-> "match", row_text |-> t, query_words |-> q,
      require_all |-> f] :
        t \in RowTexts, q \in SeqsOf(QueryTokens, 0, MaxQueryLen), f \in BOOLEAN}

match_query_call ==
    /\ call.fn = "pending"
    /\ call.arg = "match"
    /\ ret' = match_query(call.row_text, call.query_words, call.require_all)
    /\ call' = [call EXCEPT !.fn = "match_query"]
    /\ UNCHANGED session_state

InitMatch ==
    /\ session_state = session_defaults
    /\ call \in MatchInputs
    /\ ret = None

SpecMatch == InitMatch /\ [][match_query_call]_vars

(***************************************************************************)
(* Claims about the matcher (SpecMatch).                                    *)
(***************************************************************************)
MatchDone == call.fn = "match_query"

RowTokens == Range(split_preserve_sizes(call.row_text))

\* the positions of the query whose token is in the row
FoundPositions ==
    {i \in 1..Len(call.query_words) : call.query_words[i] \in RowTokens}

\* C1: match_query returns the number c of query tokens found in the row's
\* token sequence when requireAll is false; when requireAll is true it returns
\* c if every query token is in the row and 0 otherwise.  For the query
\* (truba, 120x60) a row holding only truba scores 0 under requireAll and 1
\* without it, and a row holding both scores 2.
C1_MatchQueryContract ==
    MatchDone =>
        LET c == Cardinality(FoundPositions)
            all == \A i \in 1..Len(call.query_words) : call.query_words[i] \in RowTokens
        IN  /\ ~call.require_all => ret = c
            /\ call.require_all => ret = (IF all THEN c ELSE 0)
            /\ call.query_words = <<truba, size120x60>> =>
                 /\ RowTokens = {truba} => ret = (IF call.require_all THEN 0 ELSE 1)
                 /\ {truba, size120x60} \subseteq RowTokens => ret = 2

C1_Witness ==
    /\ MatchDone
    /\ call.query_words = <<truba, size120x60>>
    /\ call.row_text = truba
    /\ call.require_all
    /\ ret = 0

SplitDone == call.fn = "split_preserve_sizes"

\* C5: a, any separator and any whitespace around it, b becomes the single
\* token a x b with a Latin x; the two documented spellings of the sheet
\* example give the same token sequence.
C5_DimensionPairIsOneToken ==
    SplitDone =>
        /\ call.arg = "dim" => ret = <<call.a \o <<"x">> \o call.b>>
        /\ call.text \in {Sheet120x60mm2, Sheet120kh60mmCaret2} =>
             ret = <<list, size120x60, mm_sq>>

C5_Witness ==
    /\ SplitDone
    /\ call.arg = "dim"
    /\ call.sep = "times"
    /\ call.text = <<"1", ",", "2", " ", " ", "times", " ", "2">>
    /\ ret = <<<<"1", ",", "2", "x", "2">>>>

C7_NormalizeIdempotent ==
    call.fn = "normalize_text" => normalize_text(ret) = ret

C7_Witness ==
    /\ call.fn = "normalize_text"
    /\ call.text = <<"2", " ", "CM", "2">>
    /\ ret = <<"2", "cm", "sup2">>

(***************************************************************************)
(* extract_price_columns and sort_price_columns                             *)
(***************************************************************************)
DigitChars == <<"0", "1", "2", "3", "4", "5", "6", "7", "8", "9">>

\* int() of one digit
DigitValue(c) == (CHOOSE n \in 1..10 : DigitChars[n] = c) - 1

\* \d{4}-\d{2}-\d{2} at i
DateShapeAt(text, i) ==
    /\ i + 9 <= Len(text)
    /\ \A k \in {0, 1, 2, 3, 5, 6, 8, 9} : IsDigit(text[i + k])
    /\ text[i + 4] = "-"
    /\ text[i + 7] = "-"

\* date_pattern.search(col): the start of the leftmost match, 0 when there is none
DateSearch(col) ==
    IF \E i \in 1..Len(col) : DateShapeAt(col, i)
    THEN CHOOSE i \in 1..Len(col) :
            /\ DateShapeAt(col, i)
            /\ \A j \in 1..(i - 1) : ~DateShapeAt(col, j)
    ELSE 0

\* the exception strptime raises
ValueError == Raise("ValueError")

IsLeap(y) == (y % 4 = 0 /\ y % 100 # 0) \/ y % 400 = 0

DaysInMonth(y, mo) ==
    IF mo = 2 THEN (IF IsLeap(y) THEN 29 ELSE 28)
    ELSE IF mo \in {4, 6, 9, 11} THEN 30 ELSE 31

\* datetime.strptime(date_str, '%Y-%m-%d') of a text of the shape dddd-dd-dd:
\* it returns <<year, month, day>>, or raises ValueError when it is no calendar date
strptime(d) ==
    LET y == DigitValue(d[1]) * 1000 + DigitValue(d[2]) * 100
             + DigitValue(d[3]) * 10 + DigitValue(d[4])
        mo == DigitValue(d[6]) * 10 + DigitValue(d[7])
        dd == DigitValue(d[9]) * 10 + DigitValue(d[10])
    IN  IF y >= 1 /\ mo \in 1..12 /\ dd >= 1 /\ dd <= DaysInMonth(y, mo)
        THEN Return(<<y, mo, dd>>)
        ELSE ValueError

\* the order of two datetimes: t1 < t2
DateLess(t1, t2) ==
    \/ t1[1] < t2[1]
    \/ t1[1] = t2[1] /\ t1[2] < t2[2]
    \/ t1[1] = t2[1] /\ t1[2] = t2[2] /\ t1[3] < t2[3]

tsena == <<"cts", "ce", "cn", "ca">>
Tsena == <<"CTS", "ce", "cn", "ca">>

\* re.compile(r'Tsena\s*\n?\s*\d{4}-\d{2}-\d{2}').search(col)
PriceDateSearch(col) ==
    \E i \in 1..Len(col) :
        /\ StartsWithAt(col, i, Tsena)
        /\ DateShapeAt(col, SpacesEnd(col, i + Len(Tsena)))

IsPriceColumn(col) ==
    StartsWithAt(lower(col), 1, tsena) \/ PriceDateSearch(col)

extract_price_columns(columns) == SelectSeq(columns, IsPriceColumn)

\* the date of a column, when its header has the shape of one
ColumnDate(col) == strptime(SubSeq(col, DateSearch(col), DateSearch(col) + 9))

\* list.sort(key=date, reverse=True): stable, so of two columns with the same
\* date the one that came first stays first.  One insertion step.
\* the insertion step of a sort without reverse=True
RECURSIVE InsertByDate_oldest_first(_, _)
InsertByDate_oldest_first(sorted, col) ==
    IF sorted = <<>> THEN <<col>>
    ELSE IF DateLess(ColumnDate(col).value, ColumnDate(Head(sorted)).value)
         THEN <<col>> \o sorted
         ELSE <<Head(sorted)>> \o InsertByDate_oldest_first(Tail(sorted), col)

RECURSIVE InsertByDate(_, _)
InsertByDate(sorted, col) ==
    IF sorted = <<>> THEN <<col>>
    ELSE IF DateLess(ColumnDate(Head(sorted)).value, ColumnDate(col).value)
         THEN <<col>> \o sorted
         ELSE <<Head(sorted)>> \o InsertByDate(Tail(sorted), col)

RECURSIVE SortByDateDesc(_)
SortByDateDesc(cols) ==
    IF cols = <<>> THEN <<>>
    ELSE InsertByDate(SortByDateDesc(SubSeq(cols, 1, Len(cols) - 1)), cols[Len(cols)])

HasDateShape(col) == DateSearch(col) # 0

\* it returns the sorted columns, or raises the ValueError of strptime
sort_price_columns(price_columns) ==
    LET dated_cols == SelectSeq(price_columns, HasDateShape)
    IN  IF \E i \in 1..Len(dated_cols) : ColumnDate(dated_cols[i]) = ValueError
        THEN ValueError
        ELSE IF dated_cols # <<>> THEN Return(SortByDateDesc(dated_cols))
        ELSE Return(price_columns)

(***************************************************************************)
(* The session: load_data and perform_search.                               *)
(*                                                                          *)
(* A DataFrame is [columns, rows]: its column names, and for each row the   *)
(* text of the cell in the search column.  A row is known by its index      *)
(* label (its position in combined_df), which filtering and sorting keep.   *)
(***************************************************************************)
SheetIds == {"sheet1", "sheet2"}

\* the url of an available sheet (line 297), and a text that is no url
SheetUrl(id) == <<"https://docs.google.com/spreadsheets/d/", id>>

BadUrl == <<"???">>

extract_sheet_id(url) == IF Len(url) = 2 THEN Some(url[2]) ELSE None

\* what reading the spreadsheet gives: open_by_key raises APIError, or no
\* worksheet has data (all_data is empty), or pd.concat(all_data) is a table
APIError == [outcome |-> "APIError", columns |-> <<>>, rows |-> <<>>]
NoData == [outcome |-> "NoData", columns |-> <<>>, rows |-> <<>>]
NotRead == [outcome |-> "NotRead", columns |-> <<>>, rows |-> <<>>]

Table(columns, rows) == [outcome |-> "ok", columns |-> columns, rows |-> rows]

\* pd.concat(all_data, ignore_index=True)
DataFrame(remote) == [columns |-> remote.columns, rows |-> remote.rows]

\* load_data(sheet_url) on session ss, the spreadsheet's content being remote:
\* the session after it and its return value
load_data(ss, sheet_url, remote) ==
    LET sheet_id == extract_sheet_id(sheet_url)
    IN  IF sheet_id = None THEN [ss |-> ss, ret |-> FALSE]
        ELSE IF ss.sheet_id # sheet_id \/ ~ss.data_loaded
        THEN IF remote.outcome # "ok" THEN [ss |-> ss, ret |-> FALSE]
             ELSE LET loaded == [ss EXCEPT !.combined_df = Some(DataFrame(remote)),
                                           !.sheet_id = sheet_id,
                                           !.data_loaded = TRUE]
                      price_columns == extract_price_columns(remote.columns)
                      sorted == sort_price_columns(price_columns)
                  IN  IF sorted.raises # ""
                      THEN [ss |-> loaded, ret |-> FALSE]
                      ELSE [ss |-> [loaded EXCEPT
                                      !.price_columns = sorted.value,
                                      !.latest_price_col =
                                          IF sorted.value # <<>>
                                          THEN Some(sorted.value[1]) ELSE @],
                            ret |-> TRUE]
        ELSE [ss |-> ss, ret |-> TRUE]

\* whether load_data(sheet_url) reads the spreadsheet
Fetches(ss, sheet_url) ==
    /\ extract_sheet_id(sheet_url) # None
    /\ ss.sheet_id # extract_sheet_id(sheet_url) \/ ~ss.data_loaded

\* the button of an available sheet (lines 395-400)
select_sheet(id, Remotes) ==
    LET ss == [session_state EXCEPT !.data_loaded = FALSE, !.search_results = None]
    IN  \E remote \in Remotes :
            LET done == load_data(ss, SheetUrl(id), remote)
            IN  /\ session_state' = done.ss
                /\ ret' = done.ret
                /\ call' = [fn |-> "load_data", arg |-> "select", remote |-> remote]

\* the load button (lines 413-417), enabled when the url field is not empty
load_button(sheet_url, Remotes) ==
    LET ss == [session_state EXCEPT !.need_load = TRUE, !.search_results = None]
    IN  \E remote \in (IF Fetches(ss, sheet_url) THEN Remotes ELSE {NotRead}) :
            LET done == load_data(ss, sheet_url, remote)
            IN  /\ session_state' = done.ss
                /\ ret' = done.ret
                /\ call' = [fn |-> "load_data", arg |-> "button", remote |-> remote]

\* the injective sequences over S: every order of its elements
Orderings(S) ==
    {f \in [1..Cardinality(S) -> S] : \A i, j \in DOMAIN f : f[i] = f[j] => i = j}

\* sort_values sorting in ascending order
sort_values_ascending(labels, key) ==
    {f \in Orderings(labels) : \A i \in 1..(Len(f) - 1) : key[f[i]] <= key[f[i + 1]]}

\* DataFrame.sort_values(by=key, ascending=False) with the default
\* kind='quicksort', which is not stable: any order of the rows in which the
\* keys do not increase
sort_values(labels, key) ==
    {f \in Orderings(labels) : \A i \in 1..(Len(f) - 1) : key[f[i]] >= key[f[i + 1]]}

\* Series.apply(lambda text: match_query(text, query_words, require_all))
RECURSIVE apply_match_query(_, _, _)
apply_match_query(texts, query_words, require_all) ==
    IF texts = <<>> THEN <<>>
    ELSE <<match_query(Head(texts), query_words, require_all)>>
         \o apply_match_query(Tail(texts), query_words, require_all)

\* search_df['__match_count'] (lines 363-369)
match_counts(df, search_query, exact_match, partial_match) ==
    LET query_words == split_preserve_sizes(search_query)
        require_all == exact_match /\ ~partial_match
    IN  apply_match_query(df.rows, query_words, require_all)

\* the values perform_search can leave in search_results (lines 371-375)
perform_search(df, search_query, exact_match, partial_match) ==
    UNION {sort_values({i \in DOMAIN count : count[i] > 0}, count) :
              count \in {match_counts(df, search_query, exact_match, partial_match)}}

\* the search form (lines 468-490), shown when a table is loaded
submit_search(search_query, exact_match, partial_match) ==
    /\ session_state.data_loaded
    /\ session_state.combined_df # None
    /\ call' = [fn |-> "perform_search", arg |-> "form", search_query |-> search_query,
                exact_match |-> exact_match, partial_match |-> partial_match]
    /\ ret' = None
    /\ IF search_query = <<>>
       THEN UNCHANGED session_state
       ELSE \E results \in perform_search(Value(session_state.combined_df), search_query,
                                          exact_match, partial_match) :
                session_state' = [session_state EXCEPT !.search_results = Some(results)]

Init ==
    /\ session_state = session_defaults
    /\ call = [fn |-> "initialize_session_state", arg |-> "none"]
    /\ ret = None

(***************************************************************************)
(* SpecSearch: tables of every row content, searched.                       *)
(***************************************************************************)
nazvanie == <<"CN", "ca", "cz", "cv", "ca", "cn", "ci", "ce">>
sheet_column == <<"CL", "ci", "cs", "ct">>

\* the cells of the search column
SearchRowTexts ==
    { truba,
      <<"CT", "cr", "cu", "cb", "ca", " ", "1", "2", "0", "ckh", "6", "0">>,
      <<>> }

SearchTables ==
    {Table(<<nazvanie, sheet_column>>, r) : r \in SeqsOf(SearchRowTexts, 1, MaxRows)}

\* the texts typed into the search field
SearchQueries ==
    { truba \o <<" ">> \o size120x60,
      <<"1", "2", "0", " ", "*", " ", "6", "0">>,
      <<>> }

\* the session after a table has been selected and loaded
InitSearch ==
    /\ \E remote \in SearchTables :
          /\ session_state = load_data(session_defaults, SheetUrl("sheet1"), remote).ss
          /\ call = [fn |-> "load_data", arg |-> "select", remote |-> remote]
    /\ ret = TRUE

NextSearch ==
    \E q \in SearchQueries, exact_match \in BOOLEAN, partial_match \in BOOLEAN :
        submit_search(q, exact_match, partial_match)

SpecSearch == InitSearch /\ [][NextSearch]_vars

(***************************************************************************)
(* SpecPrice: the price-column selector applied to every header.            *)
(***************************************************************************)
price_0110 == Tsena \o <<"\n", "2", "0", "2", "4", "-", "0", "1", "-", "1", "0">>
price_0305 == Tsena \o <<"\n", "2", "0", "2", "4", "-", "0", "3", "-", "0", "5">>
price_lower_0110 == tsena \o <<" ", "2", "0", "2", "4", "-", "0", "1", "-", "1", "0">>
price_undated == Tsena
price_1345 == Tsena \o <<" ", "2", "0", "2", "4", "-", "1", "3", "-", "4", "5">>
wholesale_0229 ==
    <<"co", "cp", "ct", " ">> \o Tsena \o <<" ", "2", "0", "2", "4", "-", "0", "2", "-", "2", "9">>

ColumnNames ==
    {price_0110, price_0305, price_lower_0110, price_undated, price_1345,
     wholesale_0229, nazvanie}

\* header rows of at most n distinct column names
Headers(names, n) ==
    {h \in SeqsOf(names, 1, n) : \A i, j \in 1..Len(h) : h[i] = h[j] => i = j}

PriceInputs ==
    {[fn |-> "pending", arg |-> "columns", columns |-> h \o <<sheet_column>>] :
        h \in Headers(ColumnNames, MaxCols)}

\* lines 334-335: sort_price_columns(extract_price_columns(df))
price_columns_call ==
    /\ call.fn = "pending"
    /\ call.arg = "columns"
    /\ ret' = sort_price_columns(extract_price_columns(call.columns))
    /\ call' = [call EXCEPT !.fn = "sort_price_columns"]
    /\ UNCHANGED session_state

InitPrice ==
    /\ session_state = session_defaults
    /\ call \in PriceInputs
    /\ ret = None

SpecPrice == InitPrice /\ [][price_columns_call]_vars

(***************************************************************************)
(* SpecLoad: tables loaded one after another.                               *)
(***************************************************************************)
LoadColumnNames == {price_0305, price_undated, price_1345, nazvanie}

LoadTables ==
    {Table(h \o <<sheet_column>>, <<truba>>) : h \in Headers(LoadColumnNames, MaxLoadCols)}

LoadRemotes == LoadTables \cup {APIError, NoData}

NextLoad ==
    \/ \E id \in SheetIds : select_sheet(id, LoadRemotes)
    \/ \E url \in {SheetUrl(id) : id \in SheetIds} \cup {BadUrl} : load_button(url, LoadRemotes)

SpecLoad == Init /\ [][NextLoad]_vars

(***************************************************************************)
(* Claims about perform_search (SpecSearch).                                *)
(***************************************************************************)
\* the search form was submitted and perform_search did not return early
SearchRan == call.fn = "perform_search" /\ call.search_query # <<>>

SearchedRows == Value(session_state.combined_df).rows

Results == Value(session_state.search_results)

\* the match counts of the rows for the submitted query
Counts ==
    apply_match_query(SearchedRows, split_preserve_sizes(call.search_query),
                      call.exact_match /\ ~call.partial_match)

\* C3: the result of perform_search holds exactly the rows whose match count
\* is greater than 0, each once, in non-increasing order of match count.
C3_ResultsAreMatchesByCount ==
    SearchRan =>
        LET count == Counts
        IN  /\ \A a, b \in 1..Len(Results) : Results[a] = Results[b] => a = b
            /\ Range(Results) = {i \in 1..Len(SearchedRows) : count[i] > 0}
            /\ \A a \in 1..(Len(Results) - 1) :
                  count[Results[a]] >= count[Results[a + 1]]

C3_Witness ==
    /\ SearchRan
    /\ Len(SearchedRows) = 3
    /\ Results = <<2, 1>>
    /\ Counts = <<1, 2, 0>>

\* C4: the sort is stable: two retained rows with equal match count appear in
\* their original table order, so the result is determined by table and query.
C4_EqualCountsKeepTableOrder ==
    SearchRan =>
        LET count == Counts
        IN  \A a, b \in 1..Len(Results) :
                (a < b /\ count[Results[a]] = count[Results[b]]) => Results[a] < Results[b]

(***************************************************************************)
(* Claims about the price-column selector (SpecPrice).                      *)
(***************************************************************************)
SortDone == call.fn = "sort_price_columns"

Returned == ret.raises = ""

\* the columns of the input that are price columns and whose header has a date
DatedPriceColumns ==
    {c \in Range(call.columns) : IsPriceColumn(c) /\ HasDateShape(c)}

\* C8: the price columns with an embedded date come out ordered by that date,
\* most recent first; a column that is no price column is never in the
\* result; the documented three-column header gives <<03-05, 01-10>>.
C8_DatedColumnsNewestFirst ==
    (SortDone /\ Returned) =>
        /\ \A c \in Range(ret.value) : c \in Range(call.columns) /\ IsPriceColumn(c)
        /\ DatedPriceColumns \subseteq Range(ret.value)
        /\ \A a, b \in 1..Len(ret.value) :
              (a < b /\ {ret.value[a], ret.value[b]} \subseteq DatedPriceColumns) =>
                  ~DateLess(ColumnDate(ret.value[a]).value, ColumnDate(ret.value[b]).value)
        /\ call.columns = <<price_0110, price_0305, nazvanie, sheet_column>> =>
              ret.value = <<price_0305, price_0110>>

C8_Witness ==
    /\ SortDone
    /\ call.columns = <<price_0110, price_0305, nazvanie, sheet_column>>
    /\ ret = Return(<<price_0305, price_0110>>)

\* position of column c in sequence cols
IndexOf(cols, c) == CHOOSE i \in 1..Len(cols) : cols[i] = c

\* C9: the output of sort_price_columns is a permutation of its input; the
\* columns without a date keep their relative order and follow the dated ones.
C9_OutputIsFullSequence ==
    (SortDone /\ Returned) =>
        LET input == extract_price_columns(call.columns)
            out == ret.value
        IN  /\ Len(out) = Len(input)
            /\ Range(out) = Range(input)
            /\ \A a, b \in 1..Len(out) :
                  (a < b /\ ~HasDateShape(out[a])) =>
                      /\ ~HasDateShape(out[b])
                      /\ IndexOf(input, out[a]) < IndexOf(input, out[b])

(***************************************************************************)
(* Claims about load_data (SpecLoad).                                       *)
(***************************************************************************)
\* the last handler read a table from the spreadsheet
TableRead == call.fn = "load_data" /\ call.remote.outcome = "ok"

\* price columns whose dddd-dd-dd text is no calendar date
MisdatedColumns(columns) ==
    {c \in Range(columns) :
        IsPriceColumn(c) /\ HasDateShape(c) /\ ColumnDate(c) = ValueError}

\* C10: a price column whose dddd-dd-dd text is no calendar date is treated as
\* undated: the load of a table with such a column succeeds, the column is in
\* price_columns, and latest_price_col is the first price column of the table.
C10_MisdatedColumnLoads ==
    (TableRead /\ MisdatedColumns(call.remote.columns) # {}) =>
        /\ ret = TRUE
        /\ MisdatedColumns(call.remote.columns) \subseteq Range(session_state.price_columns)
        /\ Range(session_state.price_columns) \subseteq Range(call.remote.columns)
        /\ session_state.latest_price_col = Some(session_state.price_columns[1])

\* C11: after any sequence of table loads the cached price selection matches
\* the loaded table: price_columns is the sorted price-column list of the
\* current combined_df, and latest_price_col is its first element, or None
\* when the table has no price column; before any load both are the defaults.
C11_CachedPricesMatchTable ==
    IF session_state.combined_df = None
    THEN /\ session_state.price_columns = <<>>
         /\ session_state.latest_price_col = None
    ELSE LET columns == Value(session_state.combined_df).columns
             sorted == sort_price_columns(extract_price_columns(columns))
         IN  sorted.raises = "" =>
                /\ session_state.price_columns = sorted.value
                /\ session_state.latest_price_col =
                       IF sorted.value # <<>> THEN Some(sorted.value[1]) ELSE None

====
